---- MODULE Spec2Model ----
(***************************************************************************)
(* Model of the secret mirroring controller                                *)
(* (pkg/controller/secret-mirror.go): the event handlers that enqueue      *)
(* keys, the worker loop around the rate limited work queue, the retry     *)
(* policy of handleErr, and reconcile / mirrorSecret acting on the         *)
(* informer cache (lister) and the API server (client).                    *)
(*                                                                         *)
(* The work queue is a library that the controller only calls; it is       *)
(* modelled from its contract (pending / processing / dirty / requeue      *)
(* count, delayed re-adds).                                                *)
(***************************************************************************)
EXTENDS Integers, Sequences, FiniteSets, TLC

\* ------------------------------------------------------------------ bounds
NumWorkers == 2
MaxData == 1
MaxEvents == 1
MaxAdds == 3

\* --------------------------------------------------------------- constants
maxRetries == 15

Workers == 1..NumWorkers

\* Secret.Data: a map, here a set of <<key, value>> pairs; the empty map is {}.
Datas == {{}} \cup {{<<"k", v>>} : v \in 1..MaxData}

SrcLoc == [Namespace |-> "ns1", Name |-> "a"]
Dst1Loc == [Namespace |-> "ns2", Name |-> "b"]
Dst2Loc == [Namespace |-> "ns3", Name |-> "c"]
Locs == {SrcLoc, Dst1Loc, Dst2Loc}

\* Configuration.Secrets: two rules fanning out from the same source.
config == << [From |-> SrcLoc, To |-> Dst1Loc],
             [From |-> SrcLoc, To |-> Dst2Loc] >>

NoSecret == [exists |-> FALSE, Data |-> {}, deleting |-> FALSE]
NewSecret(d) == [exists |-> TRUE, Data |-> d, deleting |-> FALSE]
Secrets == {NoSecret} \cup [exists : {TRUE}, Data : Datas, deleting : BOOLEAN]

Range(s) == {s[i] : i \in DOMAIN s}

\* ------------------------------------------------------------------- keys
\* cache.DeletionHandlingMetaNamespaceKeyFunc: "<namespace>/<name>", or
\* "<name>" alone for an object without namespace.  A key is the tuple of
\* its "/"-separated parts.
KeyFunc(loc) ==
    IF loc.Namespace = "" THEN <<loc.Name>> ELSE <<loc.Namespace, loc.Name>>

\* cache.SplitMetaNamespaceKey: one part is a bare name, two parts are
\* namespace and name, anything else is an error.
SplitMetaNamespaceKey(key) ==
    CASE Len(key) = 1 -> [Namespace |-> "", Name |-> key[1], err |-> "nil"]
      [] Len(key) = 2 -> [Namespace |-> key[1], Name |-> key[2], err |-> "nil"]
      [] OTHER -> [Namespace |-> "", Name |-> "", err |-> "unexpected key format"]

Keys == {KeyFunc(l) : l \in Locs}
NoKey == <<>>

VARIABLES
    queue,          \* the rate limiting work queue
    api,            \* the API server's secrets, by location
    cache,          \* the informer's cache (what the lister returns)
    events,         \* number of user writes, resyncs and handler panics so far
    pc,             \* per worker: position in worker / processNextWorkItem
    item,           \* per worker: the key checked out
    source,         \* per worker: the source secret reconcile fetched
    todo,           \* per worker: indexes of config.Secrets still to visit
    mirrorErrors,   \* per worker: reconcile's mirrorErrors slice
    err,            \* per worker: what reconcile returned
    trace,          \* per worker: the mirrorSecret calls of this invocation
    probing,        \* whether the per key counters below are kept
    probe,          \* per key: adds, deliveries, requeues, drops, successes
    stopCh,         \* Run: whether the stop channel is closed
    synced,         \* Run: whether the informer has synced
    runPc,          \* Run: position in Run
    fs,             \* config agent: the configuration file behind its symlink
    fsEvents,       \* config agent: events in watcher.Events not yet received
    agentC,         \* config agent: ca.c, the published configuration
    agentPc,        \* config agent: position in Start / Stop
    watcherPc,      \* config agent: position of the watch goroutine
    loaded,         \* config agent: the configuration Start / the goroutine loaded
    mut,            \* config agent: ca.mut
    readerPc,       \* a caller of Config(): its position
    got,            \* a caller of Config(): what the last call returned
    published,      \* every configuration Set has stored
    loadFailed      \* whether a reload of the watch goroutine has failed

ctrlVars == <<queue, api, cache, events, pc, item, source, todo, mirrorErrors,
              err, trace, probing, probe>>

runVars == <<stopCh, synced, runPc>>

agentVars == <<fs, fsEvents, agentC, agentPc, watcherPc, loaded, mut,
               readerPc, got, published, loadFailed>>

vars == <<ctrlVars, runVars, agentVars>>

workerVars == <<pc, item, source, todo, mirrorErrors, err, trace>>

\* ------------------------------------------------------------ work queue
EmptyQueue ==
    [pending |-> <<>>, processing |-> {}, dirty |-> {},
     requeueCount |-> [k \in Keys |-> 0], waiting |-> {},
     shuttingDown |-> FALSE]

\* Add: dropped once shut down; deferred through dirty while the key is
\* being processed; no-op when already pending; else appended.
Add(q, k) ==
    IF q.shuttingDown THEN q
    ELSE IF k \in q.processing THEN [q EXCEPT !.dirty = @ \cup {k}]
    ELSE IF k \in Range(q.pending) THEN q
    ELSE [q EXCEPT !.pending = Append(@, k)]

\* Get on a non-empty queue: the head moves from pending to processing.
GetKey(q) == Head(q.pending)
Get(q) ==
    [q EXCEPT !.pending = Tail(@), !.processing = @ \cup {Head(q.pending)}]

\* Done: leaves processing; a dirty key is re-added to pending.
Done(q, k) ==
    IF k \in q.dirty
    THEN [q EXCEPT !.processing = @ \ {k}, !.dirty = @ \ {k},
                   !.pending = Append(@, k)]
    ELSE [q EXCEPT !.processing = @ \ {k}]

Forget(q, k) == [q EXCEPT !.requeueCount[k] = 0]

NumRequeues(q, k) == q.requeueCount[k]

\* AddRateLimited: counts the requeue and schedules Add(k) on a timer.
AddRateLimited(q, k) ==
    [q EXCEPT !.requeueCount[k] = @ + 1,
              !.waiting = IF q.shuttingDown THEN @ ELSE @ \cup {k}]

ShutDown(q) == [q EXCEPT !.shuttingDown = TRUE]

\* ------------------------------------------------------------ API server
ApiCreate(server, to, obj, fail) ==
    IF fail THEN [server |-> server, err |-> "injected error"]
    ELSE IF server[to].exists THEN [server |-> server, err |-> "AlreadyExists"]
    ELSE [server |-> [server EXCEPT ![to] = obj], err |-> "nil"]

ApiUpdate(server, to, obj, fail) ==
    IF fail THEN [server |-> server, err |-> "injected error"]
    ELSE IF ~server[to].exists THEN [server |-> server, err |-> "NotFound"]
    ELSE [server |-> [server EXCEPT ![to].Data = obj.Data], err |-> "nil"]


\* ------------------------------------------------------------ controller
\* enqueue with AddRateLimited in the place of Add.
enqueueRateLimited(q, loc) == AddRateLimited(q, KeyFunc(loc))

\* enqueue: the object's key is added to the queue.
enqueue(q, loc) == Add(q, KeyFunc(loc))

NoWrite(server, looked, e) ==
    [server |-> server, looked |-> looked, calls |-> <<>>, err |-> e]

Write(op, to, d, r) ==
    [server |-> r.server, looked |-> TRUE,
     calls |-> << [op |-> op, to |-> to, Data |-> d, resp |-> r.err] >>,
     err |-> r.err]

\* mirrorSecret that writes an empty source over the destination.
mirrorSecretNoEmptyCheck(src, to, getErr, secret, server, fail) ==
    IF getErr = "nil"
    THEN IF secret.Data = src.Data
         THEN NoWrite(server, TRUE, "nil")
         ELSE Write("update", to, src.Data, ApiUpdate(server, to, [secret EXCEPT !.Data = src.Data], fail))
    ELSE IF getErr = "NotFound"
    THEN Write("create", to, src.Data, ApiCreate(server, to, NewSecret(src.Data), fail))
    ELSE NoWrite(server, TRUE, getErr)

\* mirrorSecret that updates a destination that already matches.
mirrorSecretNoEqualCheck(src, to, getErr, secret, server, fail) ==
    IF Cardinality(src.Data) = 0 THEN NoWrite(server, FALSE, "nil")
    ELSE IF getErr = "nil"
    THEN Write("update", to, src.Data, ApiUpdate(server, to, [secret EXCEPT !.Data = src.Data], fail))
    ELSE IF getErr = "NotFound"
    THEN Write("create", to, src.Data, ApiCreate(server, to, NewSecret(src.Data), fail))
    ELSE NoWrite(server, TRUE, getErr)

\* mirrorSecret that creates the destination without the source's Data.
mirrorSecretCreateNoData(src, to, getErr, secret, server, fail) ==
    IF Cardinality(src.Data) = 0 THEN NoWrite(server, FALSE, "nil")
    ELSE IF getErr = "nil"
    THEN IF secret.Data = src.Data
         THEN NoWrite(server, TRUE, "nil")
         ELSE Write("update", to, src.Data, ApiUpdate(server, to, [secret EXCEPT !.Data = src.Data], fail))
    ELSE IF getErr = "NotFound"
    THEN Write("create", to, {}, ApiCreate(server, to, NewSecret({}), fail))
    ELSE NoWrite(server, TRUE, getErr)

\* mirrorSecret that leaves a destination that differs as it is.
mirrorSecretNoUpdate(src, to, getErr, secret, server, fail) ==
    IF Cardinality(src.Data) = 0 THEN NoWrite(server, FALSE, "nil")
    ELSE IF getErr = "nil" THEN NoWrite(server, TRUE, "nil")
    ELSE IF getErr = "NotFound"
    THEN Write("create", to, src.Data, ApiCreate(server, to, NewSecret(src.Data), fail))
    ELSE NoWrite(server, TRUE, getErr)

\* mirrorSecret(source, to): getErr and secret are what the lister returns
\* for the destination, server is the API server and fail whether it
\* rejects the write.  The result holds the API server afterwards, whether
\* the destination was looked up, the write calls sent to the client (each
\* with the client's response) and the error returned.
mirrorSecret(src, to, getErr, secret, server, fail) ==
    IF Cardinality(src.Data) = 0 THEN NoWrite(server, FALSE, "nil")
    ELSE IF getErr = "nil"
    THEN IF secret.Data = src.Data
         THEN NoWrite(server, TRUE, "nil")
         ELSE LET destination == [secret EXCEPT !.Data = src.Data]
              IN  Write("update", to, destination.Data,
                        ApiUpdate(server, to, destination, fail))
    ELSE IF getErr = "NotFound"
    THEN LET destination == NewSecret(src.Data)
         IN  Write("create", to, destination.Data,
                   ApiCreate(server, to, destination, fail))
    ELSE NoWrite(server, TRUE, getErr)

\* The rules of the configuration whose From is (namespace, name), in order.
RECURSIVE MatchingFrom(_, _, _)
MatchingFrom(i, namespace, name) ==
    IF i > Len(config) THEN <<>>
    ELSE IF config[i].From.Namespace = namespace /\ config[i].From.Name = name
         THEN <<i>> \o MatchingFrom(i + 1, namespace, name)
         ELSE MatchingFrom(i + 1, namespace, name)

\* reconcile that goes on with a source that is being deleted.
sourceGoneNoDeletionCheck(found, secret) == ~found

\* reconcile's early return: the source is not in the cache, or it is there
\* with a deletion timestamp.
sourceGone(found, secret) == ~found \/ secret.deleting

\* reconcile that drops the errors it collected.
reconcileResultNil(errs) == "nil"

\* reconcile's return value once the loop over the rules is over.
reconcileResult(errs) ==
    IF Len(errs) > 0 THEN "failed to mirror secret" ELSE "nil"

\* handleErr that retries once more.
shouldRetryOffByOne(q, k) == NumRequeues(q, k) <= maxRetries

\* handleErr's decision on an error.
shouldRetry(q, k) == NumRequeues(q, k) < maxRetries

\* handleErr that requeues on every error, without the test on NumRequeues.
handleErrNoCap(q, e, k) ==
    IF e = "nil" THEN Forget(q, k) ELSE AddRateLimited(q, k)

\* handleErr(err, key) on the queue.
handleErr(q, e, k) ==
    IF e = "nil" THEN Forget(q, k)
    ELSE IF shouldRetry(q, k) THEN AddRateLimited(q, k)
    ELSE Forget(q, k)

\* ---------------------------------------------------------- observation
ProbeCap == maxRetries + 3
NoProbe == [adds |-> 0, delivered |-> 0, requeued |-> 0, dropped |-> 0, succeeded |-> 0]
Bump(n) == IF n < ProbeCap THEN n + 1 ELSE n

CountAdd(k) ==
    IF probing THEN [probe EXCEPT ![k].adds = Bump(@)] ELSE probe
CountGet(k) ==
    IF probing THEN [probe EXCEPT ![k].delivered = Bump(@)] ELSE probe
\* What handleErr did to the queue: a requeue, a drop or a success.
CountHandled(k, e, q, q2) ==
    IF ~probing THEN probe
    ELSE IF q2.requeueCount[k] > q.requeueCount[k] THEN [probe EXCEPT ![k].requeued = Bump(@)]
    ELSE IF e # "nil" THEN [probe EXCEPT ![k].dropped = Bump(@)]
    ELSE [probe EXCEPT ![k].succeeded = Bump(@)]

\* ----------------------------------------------------------------- Init
\* At start the source holds data, the first destination exists with other
\* (empty) data and the second destination does not exist.
InitApi ==
    [l \in Locs |-> IF l = SrcLoc THEN NewSecret({<<"k", 1>>})
                    ELSE IF l = Dst1Loc THEN NewSecret({})
                    ELSE NoSecret]

\* The keys of the secrets the informer lists at start, each added once.
RECURSIVE InitialAdds(_, _, _)
InitialAdds(q, order, server) ==
    IF order = <<>> THEN q
    ELSE InitialAdds(IF server[Head(order)].exists THEN enqueue(q, Head(order)) ELSE q,
                     Tail(order), server)

InitState ==
    /\ api = InitApi
    /\ cache = api
    /\ queue = InitialAdds(EmptyQueue, <<SrcLoc, Dst1Loc, Dst2Loc>>, api)
    /\ events = 0
    /\ pc = [w \in Workers |-> "get"]
    /\ item = [w \in Workers |-> NoKey]
    /\ source = [w \in Workers |-> NoSecret]
    /\ todo = [w \in Workers |-> <<>>]
    /\ mirrorErrors = [w \in Workers |-> <<>>]
    /\ err = [w \in Workers |-> "nil"]
    /\ trace = [w \in Workers |-> <<>>]

\* Run has seen the informer sync and has started the workers.
RunStarted ==
    /\ stopCh = FALSE
    /\ synced = TRUE
    /\ runPc = "started"

\* Versions of the configuration file; the file is reachable through its
\* symlink (linked) or not.  Version 1 is the controller's configuration,
\* every later version holds one more rule.
ConfigFile(v) ==
    config \o [i \in 1..(v - 1) |-> [From |-> Dst1Loc, To |-> Dst2Loc]]

NoConfig == 0
NotCalled == -1

\* Start has returned: version 1 is published and the directory is watched.
AgentStarted ==
    /\ fs = [target |-> 1, linked |-> TRUE]
    /\ fsEvents = 0
    /\ agentC = 1
    /\ agentPc = "watching"
    /\ watcherPc = "idle"
    /\ loaded = [start |-> 1, watch |-> NoConfig]
    /\ mut = [writer |-> "none", readers |-> 0]
    /\ readerPc = "idle"
    /\ got = NotCalled
    /\ published = {1}
    /\ loadFailed = FALSE

Init ==
    /\ InitState
    /\ RunStarted
    /\ AgentStarted
    /\ probing = FALSE
    /\ probe = [k \in Keys |-> NoProbe]

\* ---------------------------------------------------------- environment
\* A user creates or updates a secret.
UserApply(loc, d) ==
    /\ events < MaxEvents
    /\ api[loc] # [api[loc] EXCEPT !.exists = TRUE, !.Data = d]
    /\ api' = [api EXCEPT ![loc] = [@ EXCEPT !.exists = TRUE, !.Data = d]]
    /\ events' = events + 1
    /\ UNCHANGED <<queue, cache, workerVars, probing, probe, runVars, agentVars>>

\* A user deletes a secret: with a finalizer it is first marked as being
\* deleted, otherwise (or once marked) it is removed.
UserDelete(loc, graceful) ==
    /\ events < MaxEvents
    /\ api[loc].exists
    /\ api' = [api EXCEPT ![loc] =
                 IF graceful /\ ~@.deleting THEN [@ EXCEPT !.deleting = TRUE]
                 ELSE NoSecret]
    /\ events' = events + 1
    /\ UNCHANGED <<queue, cache, workerVars, probing, probe, runVars, agentVars>>

\* The informer observes the API server's state of one secret: the cache is
\* updated, and add / update enqueue the key (no delete handler is registered).
InformerDeliver(loc) ==
    /\ cache[loc] # api[loc]
    /\ cache' = [cache EXCEPT ![loc] = api[loc]]
    /\ IF api[loc].exists
       THEN /\ queue' = enqueue(queue, loc)
            /\ probe' = CountAdd(KeyFunc(loc))
       ELSE UNCHANGED <<queue, probe>>
    /\ UNCHANGED <<api, events, workerVars, probing, runVars, agentVars>>

\* The informer's periodic resync: update(old, obj) for a cached secret.
Resync(loc) ==
    /\ events < MaxEvents
    /\ cache[loc].exists
    /\ events' = events + 1
    /\ queue' = enqueue(queue, loc)
    /\ probe' = CountAdd(KeyFunc(loc))
    /\ UNCHANGED <<api, cache, workerVars, probing, runVars, agentVars>>

\* The delay of a rate limited add is over: Add(k).
DelayedAdd(k) ==
    /\ k \in queue.waiting
    /\ ~queue.shuttingDown
    /\ queue' = Add([queue EXCEPT !.waiting = @ \ {k}], k)
    /\ UNCHANGED <<api, cache, events, workerVars, probing, probe, runVars, agentVars>>

\* --------------------------------------------------------------- worker
\* processNextWorkItem with c.queue.Done(key) called at once, not deferred.
WorkerGetDoneAtOnce(w) ==
    /\ pc[w] = "get"
    /\ queue.pending # <<>>
    /\ item' = [item EXCEPT ![w] = GetKey(queue)]
    /\ queue' = Done(Get(queue), GetKey(queue))
    /\ pc' = [pc EXCEPT ![w] = "reconcile"]
    /\ probe' = CountGet(GetKey(queue))
    /\ UNCHANGED <<api, cache, events, source, todo, mirrorErrors, err, trace, probing, runVars, agentVars>>

\* processNextWorkItem: key, quit := c.queue.Get(); defer c.queue.Done(key)
WorkerGet(w) ==
    /\ pc[w] = "get"
    /\ queue.pending # <<>>
    /\ item' = [item EXCEPT ![w] = GetKey(queue)]
    /\ queue' = Get(queue)
    /\ pc' = [pc EXCEPT ![w] = "reconcile"]
    /\ probe' = CountGet(GetKey(queue))
    /\ UNCHANGED <<api, cache, events, source, todo, mirrorErrors, err, trace, probing, runVars, agentVars>>

\* reconcile up to the loop over the rules: split the key, fetch the source
\* from the lister, return early when it is gone.
Reconcile(w) ==
    /\ pc[w] = "reconcile"
    /\ LET k == SplitMetaNamespaceKey(item[w])
           loc == [Namespace |-> k.Namespace, Name |-> k.Name]
           found == loc \in Locs /\ cache[loc].exists
           secret == IF found THEN cache[loc] ELSE NoSecret
           rules == MatchingFrom(1, k.Namespace, k.Name)
       IN  IF k.err # "nil"
           THEN /\ err' = [err EXCEPT ![w] = k.err]
                /\ pc' = [pc EXCEPT ![w] = "handleErr"]
                /\ UNCHANGED <<source, todo>>
           ELSE IF sourceGone(found, secret)
           THEN /\ err' = [err EXCEPT ![w] = "nil"]
                /\ source' = [source EXCEPT ![w] = secret]
                /\ pc' = [pc EXCEPT ![w] = "handleErr"]
                /\ UNCHANGED todo
           ELSE /\ source' = [source EXCEPT ![w] = secret]
                /\ todo' = [todo EXCEPT ![w] = rules]
                /\ IF rules = <<>>
                   THEN /\ err' = [err EXCEPT ![w] = reconcileResult(<<>>)]
                        /\ pc' = [pc EXCEPT ![w] = "handleErr"]
                   ELSE /\ pc' = [pc EXCEPT ![w] = "mirror"]
                        /\ UNCHANGED err
    /\ UNCHANGED <<queue, api, cache, events, item, mirrorErrors, trace, probing, probe, runVars, agentVars>>

\* reconcile's loop that returns at the first mirrorSecret error.
MirrorSecretStopOnError(w) ==
    /\ pc[w] = "mirror"
    /\ \E getFails \in BOOLEAN, fail \in BOOLEAN :
         LET rule == Head(todo[w])
             to == config[rule].To
             getErr == IF getFails THEN "lister error"
                       ELSE IF cache[to].exists THEN "nil" ELSE "NotFound"
             r == mirrorSecret(source[w], to, getErr, cache[to], api, fail)
             errs == Append(mirrorErrors[w], r.err)
         IN  /\ api' = r.server
             /\ trace' = [trace EXCEPT ![w] = Append(@,
                            [rule |-> rule, looked |-> r.looked,
                             getErr |-> IF r.looked THEN getErr ELSE "none",
                             secret |-> IF r.looked /\ getErr = "nil" THEN cache[to] ELSE NoSecret,
                             calls |-> r.calls, err |-> r.err])]
             /\ mirrorErrors' = [mirrorErrors EXCEPT ![w] = errs]
             /\ todo' = [todo EXCEPT ![w] = Tail(@)]
             /\ IF Tail(todo[w]) = <<>> \/ r.err # "nil"
                THEN /\ err' = [err EXCEPT ![w] = reconcileResult(errs)]
                     /\ pc' = [pc EXCEPT ![w] = "handleErr"]
                ELSE UNCHANGED <<err, pc>>
    /\ UNCHANGED <<queue, cache, events, item, source, probing, probe, runVars, agentVars>>

\* One iteration of reconcile's loop: mirrorSecret for the next matching
\* rule, its result appended to mirrorErrors; after the last rule reconcile
\* returns.
MirrorSecret(w) ==
    /\ pc[w] = "mirror"
    /\ \E getFails \in BOOLEAN, fail \in BOOLEAN :
         LET rule == Head(todo[w])
             to == config[rule].To
             getErr == IF getFails THEN "lister error"
                       ELSE IF cache[to].exists THEN "nil" ELSE "NotFound"
             r == mirrorSecret(source[w], to, getErr, cache[to], api, fail)
             errs == Append(mirrorErrors[w], r.err)
         IN  /\ api' = r.server
             /\ trace' = [trace EXCEPT ![w] = Append(@,
                            [rule |-> rule, looked |-> r.looked,
                             getErr |-> IF r.looked THEN getErr ELSE "none",
                             secret |-> IF r.looked /\ getErr = "nil" THEN cache[to] ELSE NoSecret,
                             calls |-> r.calls, err |-> r.err])]
             /\ mirrorErrors' = [mirrorErrors EXCEPT ![w] = errs]
             /\ todo' = [todo EXCEPT ![w] = Tail(@)]
             /\ IF Tail(todo[w]) = <<>>
                THEN /\ err' = [err EXCEPT ![w] = reconcileResult(errs)]
                     /\ pc' = [pc EXCEPT ![w] = "handleErr"]
                ELSE UNCHANGED <<err, pc>>
    /\ UNCHANGED <<queue, cache, events, item, source, probing, probe, runVars, agentVars>>

\* processNextWorkItem: c.handleErr(err, key); reconcile's locals are gone.
HandleErr(w) ==
    /\ pc[w] = "handleErr"
    /\ queue' = handleErr(queue, err[w], item[w])
    /\ probe' = CountHandled(item[w], err[w], queue, queue')
    /\ pc' = [pc EXCEPT ![w] = "done"]
    /\ source' = [source EXCEPT ![w] = NoSecret]
    /\ todo' = [todo EXCEPT ![w] = <<>>]
    /\ mirrorErrors' = [mirrorErrors EXCEPT ![w] = <<>>]
    /\ err' = [err EXCEPT ![w] = "nil"]
    /\ trace' = [trace EXCEPT ![w] = <<>>]
    /\ UNCHANGED <<api, cache, events, item, probing, runVars, agentVars>>

\* processNextWorkItem that returns without c.queue.Done(key).
WorkerDoneNoRelease(w) ==
    /\ pc[w] = "done"
    /\ pc' = [pc EXCEPT ![w] = "get"]
    /\ item' = [item EXCEPT ![w] = NoKey]
    /\ UNCHANGED <<queue, api, cache, events, source, todo, mirrorErrors, err, trace, probing, probe, runVars, agentVars>>

\* processNextWorkItem returns: the deferred c.queue.Done(key) runs.
WorkerDone(w) ==
    /\ pc[w] = "done"
    /\ queue' = Done(queue, item[w])
    /\ pc' = [pc EXCEPT ![w] = "get"]
    /\ item' = [item EXCEPT ![w] = NoKey]
    /\ UNCHANGED <<api, cache, events, source, todo, mirrorErrors, err, trace, probing, probe, runVars, agentVars>>

WorkerStep(w) ==
    WorkerGet(w) \/ Reconcile(w) \/ MirrorSecret(w) \/ HandleErr(w) \/ WorkerDone(w)

Next ==
    \/ \E d \in Datas : UserApply(SrcLoc, d)
    \/ \E g \in BOOLEAN : UserDelete(SrcLoc, g)
    \/ \E l \in Locs : InformerDeliver(l)
    \/ \E l \in Locs : Resync(l)
    \/ \E k \in Keys : DelayedAdd(k)
    \/ \E w \in Workers : WorkerStep(w)

Spec == Init /\ [][Next]_vars

\* The controller with no user write and no resync: the only adds are those
\* of the initial listing, of the informer observing the controller's own
\* writes, and of the queue's timers.  The per key counters are kept.
InitRetry ==
    /\ InitState
    /\ RunStarted
    /\ AgentStarted
    /\ probing = TRUE
    /\ probe = [k \in Keys |->
                  [NoProbe EXCEPT !.adds = IF k \in Range(queue.pending) THEN 1 ELSE 0]]

NextAlone ==
    \/ \E l \in Locs : InformerDeliver(l)
    \/ \E k \in Keys : DelayedAdd(k)
    \/ \E w \in Workers : WorkerStep(w)

SpecRetry == InitRetry /\ [][NextAlone]_vars

TypeOK ==
    /\ api \in [Locs -> Secrets]
    /\ cache \in [Locs -> Secrets]
    /\ pc \in [Workers -> {"get", "reconcile", "mirror", "handleErr", "done"}]
    /\ \A k \in Keys : queue.requeueCount[k] \in 0..maxRetries

\* ------------------------------------------------------------------ claims
SrcKey == KeyFunc(SrcLoc)

\* A worker holds its item from Get until the deferred Done.
Holding(w) == pc[w] \in {"reconcile", "mirror", "handleErr", "done"}

Occurrences(k, s) == Cardinality({i \in DOMAIN s : s[i] = k})

\* C1: in every reachable state no two workers have the same key checked
\* out, whatever number of Adds of the key arrive while it is in flight.
C1_NoConcurrentSameKey ==
    \A w1, w2 \in Workers :
        (w1 # w2 /\ Holding(w1) /\ Holding(w2)) => item[w1] # item[w2]

\* Two workers are busy and the key of one of them was added again meanwhile.
C1_Witness ==
    \E w1, w2 \in Workers :
        /\ w1 # w2 /\ Holding(w1) /\ Holding(w2)
        /\ item[w1] \in queue.dirty

\* C2: when reconcile returns, it returns an error if and only if the
\* mirror of at least one matching rule returned an error.
C2_ErrorIffSomeMirrorFailed ==
    \A w \in Workers :
        pc[w] = "handleErr" =>
            ((err[w] # "nil") <=>
                (\E i \in DOMAIN trace[w] : trace[w][i].err # "nil"))

\* C3: a key whose handler failed every time and that the event feed added
\* only once is requeued with AddRateLimited at most maxRetries times; once
\* it is dropped it was requeued exactly maxRetries times and delivered
\* maxRetries + 1 times, its retry count is zero and it is nowhere in the
\* queue, so that Get never delivers it again.
C3_BoundedRetry ==
    \A k \in Keys :
        (probe[k].succeeded = 0 /\ probe[k].adds <= 1) =>
            /\ probe[k].requeued <= maxRetries
            /\ probe[k].dropped <= 1
            /\ probe[k].dropped = 1 =>
                  /\ probe[k].requeued = maxRetries
                  /\ probe[k].delivered = maxRetries + 1
                  /\ NumRequeues(queue, k) = 0
                  /\ k \notin Range(queue.pending)
                  /\ k \notin queue.waiting
                  /\ k \notin queue.dirty
                  /\ k \in queue.processing =>
                        \E w \in Workers : pc[w] = "done" /\ item[w] = k

\* The source key was dropped after its retries and released.
C3_Witness ==
    /\ probe[SrcKey].dropped = 1
    /\ probe[SrcKey].succeeded = 0
    /\ probe[SrcKey].adds = 1
    /\ SrcKey \notin queue.processing

\* The controller left alone (no user write, no resync) with workers that
\* keep running: a worker that can take a step eventually takes one.
SpecFair == Init /\ [][NextAlone]_vars /\ \A w \in Workers : WF_vars(WorkerStep(w))

\* C4: a key added while a worker has it checked out is pending again right
\* after that worker's Done, and the handler is eventually invoked for it
\* once more.
C4_NoLostUpdate ==
    /\ [][\A w \in Workers :
            (pc[w] = "done" /\ pc'[w] = "get" /\ item[w] \in queue.dirty)
                => item[w] \in Range(queue'.pending)]_vars
    /\ \A k \in Keys :
            (k \in queue.dirty) ~>
                (\E w \in Workers :
                    pc[w] = "reconcile" /\ item[w] = k /\ k \notin queue.dirty)

\* A worker is about to release a key that was added while it held it.
C4_Witness ==
    \E w \in Workers : pc[w] = "done" /\ item[w] \in queue.dirty

RECURSIVE enqueueTimes(_, _, _)
enqueueTimes(q, loc, n) ==
    IF n = 0 THEN q ELSE enqueueTimes(enqueue(q, loc), loc, n - 1)

\* C5: enqueueing a key n >= 1 times leaves the queue as enqueueing it once
\* does, with one entry for the key when no worker holds it; a key added one
\* or more times and not delivered since is pending exactly once.
C5_EnqueueIdempotent ==
    \A l \in Locs :
        /\ \A n \in 1..MaxAdds :
              /\ enqueueTimes(queue, l, n) = enqueue(queue, l)
              /\ KeyFunc(l) \notin queue.processing =>
                    Occurrences(KeyFunc(l), enqueueTimes(queue, l, n).pending) = 1
        /\ (probe[KeyFunc(l)].adds >= 1 /\ probe[KeyFunc(l)].delivered = 0) =>
              Occurrences(KeyFunc(l), queue.pending) = 1

\* A key was added twice before its first delivery and is pending once.
C5_Witness ==
    \E k \in Keys :
        /\ probe[k].adds >= 2
        /\ probe[k].delivered = 0
        /\ Occurrences(k, queue.pending) = 1

\* Worker w takes a MirrorSecret step; LastMirror(w) is the call it made.
MirrorStep(w) == pc[w] = "mirror" /\ Len(trace'[w]) = Len(trace[w]) + 1
LastMirror(w) == trace'[w][Len(trace'[w])]

\* C6: mirrorSecret with a source holding data D and a destination the lister
\* does not find sends exactly one write, a create at the rule's To with
\* Data = D, and returns what the create returns; when the create succeeds
\* the destination then exists with Data = D.
C6_MirrorCreates ==
    [][\A w \in Workers :
         (MirrorStep(w) /\ source[w].Data # {} /\ LastMirror(w).getErr = "NotFound") =>
            LET t == LastMirror(w)
                to == config[t.rule].To
            IN  /\ Len(t.calls) = 1
                /\ t.calls[1].op = "create"
                /\ t.calls[1].to = to
                /\ t.calls[1].Data = source[w].Data
                /\ t.err = t.calls[1].resp
                /\ t.calls[1].resp = "nil" =>
                      (t.err = "nil" /\ api'[to] = NewSecret(source[w].Data))]_vars

\* A mirror found no destination and its create succeeded.
C6_Witness ==
    \E w \in Workers : \E i \in DOMAIN trace[w] :
        /\ source[w].Data # {}
        /\ trace[w][i].getErr = "NotFound"
        /\ Len(trace[w][i].calls) = 1
        /\ trace[w][i].calls[1].op = "create"
        /\ trace[w][i].calls[1].resp = "nil"
        /\ trace[w][i].err = "nil"

\* The lister found the destination of call t with the Data of w's source.
AlreadyEqual(w, t) ==
    t.looked /\ t.getErr = "nil" /\ t.secret.Data = source[w].Data

\* C7: mirrorSecret with a destination that already holds the source's Data
\* sends no write, changes nothing on the API server and returns nil; a
\* reconcile all of whose destinations already match has sent no write.
C7_MirrorIdempotent ==
    /\ [][\A w \in Workers :
            (MirrorStep(w) /\ AlreadyEqual(w, LastMirror(w))) =>
                /\ LastMirror(w).calls = <<>>
                /\ LastMirror(w).err = "nil"
                /\ api' = api]_vars
    /\ [](\A w \in Workers :
            (pc[w] = "handleErr"
               /\ \A i \in DOMAIN trace[w] : AlreadyEqual(w, trace[w][i])) =>
                \A i \in DOMAIN trace[w] : trace[w][i].calls = <<>>)

\* A reconcile of a source with data ends with every destination matching.
C7_Witness ==
    \E w \in Workers :
        /\ pc[w] = "handleErr"
        /\ source[w].Data # {}
        /\ Len(trace[w]) = Len(config)
        /\ \A i \in DOMAIN trace[w] :
              AlreadyEqual(w, trace[w][i]) /\ trace[w][i].calls = <<>>

\* C8: mirrorSecret with a source without data sends no write, leaves the
\* API server as it is and returns nil, whatever the destination is.
C8_EmptySourceSkipped ==
    [][\A w \in Workers :
         (MirrorStep(w) /\ source[w].Data = {}) =>
            /\ LastMirror(w).calls = <<>>
            /\ LastMirror(w).err = "nil"
            /\ api' = api]_vars

\* A mirror of a source without data ran while its destination holds data.
C8_Witness ==
    \E w \in Workers :
        /\ trace[w] # <<>>
        /\ source[w].exists
        /\ source[w].Data = {}
        /\ api[config[trace[w][1].rule].To].exists
        /\ api[config[trace[w][1].rule].To].Data # {}

\* C9: a reconcile whose source is not in the cache, or is there with a
\* deletion timestamp, returns nil without a single mirrorSecret call; the
\* only calls the handler sends are creates and updates, and a step in which
\* a secret disappears from the API server is a user's, never a worker's.
C9_GoneSourceIsNoOp ==
    /\ [](\A w \in Workers :
            /\ (pc[w] = "handleErr" /\ (~source[w].exists \/ source[w].deleting)) =>
                  (err[w] = "nil" /\ trace[w] = <<>>)
            /\ \A i \in DOMAIN trace[w] : \A j \in DOMAIN trace[w][i].calls :
                  trace[w][i].calls[j].op \in {"create", "update"})
    /\ [][(\E l \in Locs : api[l].exists /\ ~api'[l].exists) =>
            (events' = events + 1 /\ UNCHANGED workerVars)]_vars

\* A reconcile of the source key returned on a source that is being deleted.
C9_Witness ==
    \E w \in Workers :
        /\ pc[w] = "handleErr"
        /\ item[w] = SrcKey
        /\ source[w].exists
        /\ source[w].deleting

\* Some mirrorSecret call of w's reconcile returned an error.
SomeMirrorFailed(w) == \E i \in DOMAIN trace[w] : trace[w][i].err # "nil"

\* C10: a reconcile in which a create, an update or a destination lookup
\* failed returns an error, and handleErr then requeues the key with
\* AddRateLimited when NumRequeues(key) < maxRetries.
C10_FailureIsRetried ==
    /\ [](\A w \in Workers :
            (pc[w] = "handleErr" /\ SomeMirrorFailed(w)) => err[w] # "nil")
    /\ [][\A w \in Workers :
            (pc[w] = "handleErr" /\ pc'[w] = "done" /\ SomeMirrorFailed(w)
               /\ NumRequeues(queue, item[w]) < maxRetries) =>
                /\ NumRequeues(queue', item[w]) = NumRequeues(queue, item[w]) + 1
                /\ item[w] \in queue'.waiting]_vars

\* A reconcile is over in which a write was rejected.
C10_Witness ==
    \E w \in Workers :
        /\ pc[w] = "handleErr"
        /\ \E i \in DOMAIN trace[w] :
              trace[w][i].calls # <<>> /\ trace[w][i].err # "nil"

\* C20: in every reachable state the retry count NumRequeues(k) of every key
\* k is at most maxRetries, whatever the interleaving of the workers, the
\* adds of the event feed and the timers of the delayed retries.
C20_RetryCountCapped ==
    \A k \in Keys : NumRequeues(queue, k) <= maxRetries

\* A key has used all its retries while two workers are busy and a timer of
\* a delayed retry is running.
C20_Witness ==
    /\ \E k \in Keys : NumRequeues(queue, k) = maxRetries
    /\ \A w \in Workers : Holding(w)
    /\ queue.waiting # {}

\* The rules w's reconcile has called mirrorSecret for, in call order.
RulesTried(w) == [i \in DOMAIN trace[w] |-> trace[w][i].rule]

\* C17: an error of the mirror of one matching rule does not stop the
\* others: when a reconcile of a live source returns, mirrorSecret was called
\* exactly once for every rule whose From is the key's namespace and name,
\* whatever the calls before it returned.
C17_AllRulesAttempted ==
    \A w \in Workers :
        (pc[w] = "handleErr" /\ source[w].exists /\ ~source[w].deleting) =>
            LET k == SplitMetaNamespaceKey(item[w])
            IN  RulesTried(w) = MatchingFrom(1, k.Namespace, k.Name)

\* A reconcile is over whose first mirror failed and whose second mirror
\* sent its write all the same.
C17_Witness ==
    \E w \in Workers :
        /\ pc[w] = "handleErr"
        /\ Len(trace[w]) = 2
        /\ trace[w][1].err # "nil"
        /\ trace[w][2].calls # <<>>

\* ---------------------------------------------------------------- panic
\* processNextWorkItem that loses its key when reconcile panics: Done is
\* called after the handler, not deferred.
PanicNoRelease(w) ==
    /\ pc[w] \in {"reconcile", "mirror"}
    /\ events < MaxEvents
    /\ events' = events + 1
    /\ pc' = [pc EXCEPT ![w] = "get"]
    /\ item' = [item EXCEPT ![w] = NoKey]
    /\ source' = [source EXCEPT ![w] = NoSecret]
    /\ todo' = [todo EXCEPT ![w] = <<>>]
    /\ mirrorErrors' = [mirrorErrors EXCEPT ![w] = <<>>]
    /\ err' = [err EXCEPT ![w] = "nil"]
    /\ trace' = [trace EXCEPT ![w] = <<>>]
    /\ UNCHANGED <<queue, api, cache, probing, probe, runVars, agentVars>>

\* reconcile panics: processNextWorkItem unwinds, its deferred
\* c.queue.Done(key) runs and handleErr does not; wait.Until's crash handler
\* takes the panic and the worker loop is entered again.  (When the crash
\* handler ends the process instead, the run stops here.)
Panic(w) ==
    /\ pc[w] \in {"reconcile", "mirror"}
    /\ events < MaxEvents
    /\ events' = events + 1
    /\ queue' = Done(queue, item[w])
    /\ pc' = [pc EXCEPT ![w] = "get"]
    /\ item' = [item EXCEPT ![w] = NoKey]
    /\ source' = [source EXCEPT ![w] = NoSecret]
    /\ todo' = [todo EXCEPT ![w] = <<>>]
    /\ mirrorErrors' = [mirrorErrors EXCEPT ![w] = <<>>]
    /\ err' = [err EXCEPT ![w] = "nil"]
    /\ trace' = [trace EXCEPT ![w] = <<>>]
    /\ UNCHANGED <<api, cache, probing, probe, runVars, agentVars>>

NextPanic ==
    \/ \E l \in Locs : InformerDeliver(l)
    \/ \E k \in Keys : DelayedAdd(k)
    \/ \E w \in Workers : WorkerStep(w)
    \/ \E w \in Workers : Panic(w)

\* The controller alone, with handlers that may panic, and worker loops that
\* keep running.
SpecPanic ==
    Init /\ [][NextPanic]_vars /\ \A w \in Workers : WF_vars(WorkerStep(w))

\* C16: every key Get returned to a worker is released with Done on every
\* exit path of the item's handling (success, error with requeue, error with
\* drop, panic in the handler): the keys in processing are exactly the keys
\* workers hold, a worker that leaves the handling leaves its key out of
\* processing, and no key stays in processing forever.
C16_DoneOnEveryPath ==
    /\ [](queue.processing = {item[w] : w \in {x \in Workers : Holding(x)}})
    /\ [][\A w \in Workers :
            (Holding(w) /\ ~Holding(w)') => item[w] \notin queue'.processing]_vars
    /\ \A k \in Keys : (k \in queue.processing) ~> (k \notin queue.processing)

\* A handler has panicked while the other worker holds a key; the panicked
\* worker's key is out of processing.
C16_Witness ==
    /\ events = 1
    /\ \E w \in Workers : pc[w] = "get" /\ queue.pending = <<>>
    /\ Cardinality(queue.processing) = 1
    /\ \E k \in Keys :
          /\ k \notin queue.processing
          /\ k \notin queue.dirty
          /\ k \notin queue.waiting
          /\ NumRequeues(queue, k) > 0

\* ------------------------------------------------------------------ Run
\* Before Run: the informer has listed the secrets but has not yet reported
\* itself synced, no worker goroutine exists.
InitRun ==
    /\ api = InitApi
    /\ cache = api
    /\ queue = InitialAdds(EmptyQueue, <<SrcLoc, Dst1Loc, Dst2Loc>>, api)
    /\ events = 0
    /\ pc = [w \in Workers |-> "off"]
    /\ item = [w \in Workers |-> NoKey]
    /\ source = [w \in Workers |-> NoSecret]
    /\ todo = [w \in Workers |-> <<>>]
    /\ mirrorErrors = [w \in Workers |-> <<>>]
    /\ err = [w \in Workers |-> "nil"]
    /\ trace = [w \in Workers |-> <<>>]
    /\ stopCh = FALSE
    /\ synced = FALSE
    /\ runPc = "waitSync"
    /\ AgentStarted
    /\ probing = FALSE
    /\ probe = [k \in Keys |-> NoProbe]

\* The informer reports itself synced (c.synced returns true).
CacheSynced ==
    /\ ~synced
    /\ ~stopCh
    /\ synced' = TRUE
    /\ UNCHANGED <<ctrlVars, stopCh, runPc, agentVars>>

\* The stop channel is closed.
CloseStop ==
    /\ ~stopCh
    /\ stopCh' = TRUE
    /\ UNCHANGED <<ctrlVars, synced, runPc, agentVars>>

\* Run that does not wait for the caches.
RunWaitForCacheSyncNoWait ==
    /\ runPc = "waitSync"
    /\ runPc' = "launch"
    /\ UNCHANGED <<ctrlVars, stopCh, synced, agentVars>>

\* Run: cache.WaitForCacheSync(stopCh, c.synced) returns, true when the
\* informer has synced, false when stopCh was closed first; on false Run
\* reports the error and goes on.
RunWaitForCacheSync ==
    /\ runPc = "waitSync"
    /\ synced \/ stopCh
    /\ runPc' = "launch"
    /\ UNCHANGED <<ctrlVars, stopCh, synced, agentVars>>

\* Run: for i < workers { go wait.Until(c.worker, time.Second, stopCh) }
RunLaunchWorkers ==
    /\ runPc = "launch"
    /\ runPc' = "started"
    /\ pc' = [w \in Workers |-> "until"]
    /\ UNCHANGED <<queue, api, cache, events, item, source, todo, mirrorErrors,
                   err, trace, probing, probe, stopCh, synced, agentVars>>

\* Run that returns without shutting the queue down.
RunReturnNoShutDown ==
    /\ runPc = "started"
    /\ stopCh
    /\ runPc' = "returned"
    /\ UNCHANGED <<ctrlVars, stopCh, synced, agentVars>>

\* Run: <-stopCh returns, Run returns and its deferred c.queue.ShutDown()
\* runs.
RunReturn ==
    /\ runPc = "started"
    /\ stopCh
    /\ runPc' = "returned"
    /\ queue' = ShutDown(queue)
    /\ UNCHANGED <<api, cache, events, workerVars, probing, probe, stopCh,
                   synced, agentVars>>

RunStep == RunWaitForCacheSync \/ RunLaunchWorkers \/ RunReturn

\* wait.Until: before each call of c.worker it returns when stopCh is
\* closed.
WorkerUntil(w) ==
    /\ pc[w] = "until"
    /\ pc' = [pc EXCEPT ![w] = IF stopCh THEN "exited" ELSE "get"]
    /\ UNCHANGED <<queue, api, cache, events, item, source, todo, mirrorErrors,
                   err, trace, probing, probe, runVars, agentVars>>

\* processNextWorkItem: Get returns quit (the queue is shut down and has
\* nothing pending), processNextWorkItem returns false and worker returns
\* to wait.Until.
WorkerQuit(w) ==
    /\ pc[w] = "get"
    /\ queue.shuttingDown
    /\ queue.pending = <<>>
    /\ pc' = [pc EXCEPT ![w] = "until"]
    /\ UNCHANGED <<queue, api, cache, events, item, source, todo, mirrorErrors,
                   err, trace, probing, probe, runVars, agentVars>>

WorkerLoop(w) == WorkerUntil(w) \/ WorkerStep(w) \/ WorkerQuit(w)

NextRun ==
    \/ CacheSynced
    \/ CloseStop
    \/ RunStep
    \/ \E l \in Locs : InformerDeliver(l)
    \/ \E k \in Keys : DelayedAdd(k)
    \/ \E w \in Workers : WorkerLoop(w)

\* Run from its call to the exit of the last worker; Run and the worker
\* goroutines keep being scheduled.
SpecRun ==
    /\ InitRun
    /\ [][NextRun]_vars
    /\ WF_vars(RunStep)
    /\ \A w \in Workers : WF_vars(WorkerLoop(w))

\* C18: after the stop channel is closed the queue is shut down; a worker
\* leaves the handling of an item only through the deferred Done at its end
\* (no sync in progress is cut short); Get reports shutdown only when the
\* queue is shut down and has nothing pending; and every worker loop exits.
C18_GracefulShutdown ==
    /\ stopCh ~> queue.shuttingDown
    /\ [][\A w \in Workers :
            /\ (Holding(w) /\ ~Holding(w)') =>
                  (pc[w] = "done" /\ pc'[w] = "get" /\ queue' = Done(queue, item[w]))
            /\ (pc[w] = "get" /\ pc'[w] = "until") =>
                  (queue.shuttingDown /\ queue.pending = <<>>)]_vars
    /\ stopCh ~> (\A w \in Workers : pc[w] = "exited")

\* Every worker has exited after the queue was shut down, and the second
\* destination was created on the way.
C18_Witness ==
    /\ \A w \in Workers : pc[w] = "exited"
    /\ queue.shuttingDown
    /\ queue.pending = <<>>
    /\ queue.processing = {}
    /\ api[Dst2Loc].exists

\* C19: no worker is in the sync handler before the cache has reported
\* itself synced, also when the stop channel is closed while Run waits for
\* the cache.
C19_NoSyncBeforeCacheSynced ==
    \A w \in Workers : (pc[w] \notin {"off", "until", "exited"}) => synced

\* The stop channel was closed while Run waited for the cache: Run went on,
\* started the workers, and they left without a handler call.
C19_Witness ==
    /\ ~synced
    /\ stopCh
    /\ \A w \in Workers : pc[w] = "exited"
    /\ queue.requeueCount = [k \in Keys |-> 0]
    /\ api = InitApi

\* --------------------------------------------------------- config agent
MaxSwaps == 2

\* Load(configLocation): the configuration behind the symlink, or an error
\* when the path cannot be read.
Load(f) ==
    IF f.linked THEN [c |-> f.target, err |-> "nil"]
    ELSE [c |-> NoConfig, err |-> "no such file"]

\* ca.mut, a sync.RWMutex: a call of Lock keeps new readers out and returns
\* when the readers that hold the lock have left; RLock is granted when no
\* writer holds the lock or waits for it.
CanLock(m) == m.writer = "none"
LockGranted(m) == m.readers = 0
CanRLock(m) == m.writer = "none"

\* Before Start: nothing is published, nothing is watched.
InitAgent ==
    /\ InitState
    /\ RunStarted
    /\ probing = FALSE
    /\ probe = [k \in Keys |-> NoProbe]
    /\ fs = [target |-> 1, linked |-> TRUE]
    /\ fsEvents = 0
    /\ agentC = NoConfig
    /\ agentPc = "init"
    /\ watcherPc = "idle"
    /\ loaded = [start |-> NoConfig, watch |-> NoConfig]
    /\ mut = [writer |-> "none", readers |-> 0]
    /\ readerPc = "idle"
    /\ got = NotCalled
    /\ published = {}
    /\ loadFailed = FALSE

\* The first half of a configuration swap: the symlink is removed.  The
\* watcher reports it when the directory is watched.
SymlinkRemove ==
    /\ fs.linked
    /\ fs.target < 1 + MaxSwaps
    /\ fs' = [fs EXCEPT !.linked = FALSE]
    /\ fsEvents' = IF agentPc = "watching" THEN fsEvents + 1 ELSE fsEvents
    /\ UNCHANGED <<ctrlVars, runVars, agentC, agentPc, watcherPc, loaded, mut,
                   readerPc, got, published, loadFailed>>

\* The second half: the symlink is created again and points to the next
\* version of the file.
SymlinkCreate ==
    /\ ~fs.linked
    /\ fs' = [target |-> fs.target + 1, linked |-> TRUE]
    /\ fsEvents' = IF agentPc = "watching" THEN fsEvents + 1 ELSE fsEvents
    /\ UNCHANGED <<ctrlVars, runVars, agentC, agentPc, watcherPc, loaded, mut,
                   readerPc, got, published, loadFailed>>

\* Start: c, err := Load(configLocation); on an error Start returns it.
StartLoad ==
    /\ agentPc = "init"
    /\ IF Load(fs).err # "nil"
       THEN /\ agentPc' = "failed"
            /\ UNCHANGED loaded
       ELSE /\ agentPc' = "loaded"
            /\ loaded' = [loaded EXCEPT !.start = Load(fs).c]
    /\ UNCHANGED <<ctrlVars, runVars, fs, fsEvents, agentC, watcherPc, mut,
                   readerPc, got, published, loadFailed>>

\* Start: ca.Set(c), ca.mut.Lock()
StartSetLock ==
    /\ agentPc = "loaded"
    /\ CanLock(mut)
    /\ mut' = [mut EXCEPT !.writer = "start"]
    /\ agentPc' = "locked"
    /\ UNCHANGED <<ctrlVars, runVars, fs, fsEvents, agentC, watcherPc, loaded,
                   readerPc, got, published, loadFailed>>

\* Start: ca.Set(c), Lock returns, ca.c = c and the deferred
\* ca.mut.Unlock()
StartSetStore ==
    /\ agentPc = "locked"
    /\ LockGranted(mut)
    /\ agentC' = loaded.start
    /\ published' = published \cup {loaded.start}
    /\ mut' = [mut EXCEPT !.writer = "none"]
    /\ agentPc' = "set"
    /\ UNCHANGED <<ctrlVars, runVars, fs, fsEvents, watcherPc, loaded,
                   readerPc, got, loadFailed>>

\* Start: the watcher is created, the watch goroutine is started and
\* watcher.Add(watchingDir) registers the directory; Start returns.
StartWatch ==
    /\ agentPc = "set"
    /\ agentPc' = "watching"
    /\ UNCHANGED <<ctrlVars, runVars, fs, fsEvents, agentC, watcherPc, loaded,
                   mut, readerPc, got, published, loadFailed>>

\* Stop: ca.watcher.Close(); the watch goroutine receives no more events.
AgentStop ==
    /\ agentPc = "watching"
    /\ agentPc' = "stopped"
    /\ fsEvents' = 0
    /\ UNCHANGED <<ctrlVars, runVars, fs, agentC, watcherPc, loaded, mut,
                   readerPc, got, published, loadFailed>>

\* The watch goroutine that takes ca.mut before it loads the file.
WatcherTakeLocked ==
    /\ agentPc = "watching"
    /\ watcherPc = "idle"
    /\ fsEvents > 0
    /\ CanLock(mut)
    /\ mut' = [mut EXCEPT !.writer = "watch"]
    /\ fsEvents' = fsEvents - 1
    /\ watcherPc' = "loading"
    /\ UNCHANGED <<ctrlVars, runVars, fs, agentC, agentPc, loaded,
                   readerPc, got, published, loadFailed>>

\* The watch goroutine: case event, ok := <-watcher.Events
WatcherTake ==
    /\ agentPc = "watching"
    /\ watcherPc = "idle"
    /\ fsEvents > 0
    /\ fsEvents' = fsEvents - 1
    /\ watcherPc' = "loading"
    /\ UNCHANGED <<ctrlVars, runVars, fs, agentC, agentPc, loaded, mut,
                   readerPc, got, published, loadFailed>>

\* The watch goroutine that returns when a reload fails.
WatcherLoadExitOnError ==
    /\ watcherPc = "loading"
    /\ IF Load(fs).err # "nil"
       THEN /\ watcherPc' = "returned"
            /\ loadFailed' = TRUE
            /\ UNCHANGED loaded
       ELSE /\ watcherPc' = "loaded"
            /\ loaded' = [loaded EXCEPT !.watch = Load(fs).c]
            /\ UNCHANGED loadFailed
    /\ UNCHANGED <<ctrlVars, runVars, fs, fsEvents, agentC, agentPc, mut,
                   readerPc, got, published>>

\* The watch goroutine that publishes whatever Load returned, its nil on an
\* error included.
WatcherLoadSetOnError ==
    /\ watcherPc = "loading"
    /\ watcherPc' = "loaded"
    /\ loaded' = [loaded EXCEPT !.watch = Load(fs).c]
    /\ loadFailed' = (loadFailed \/ Load(fs).err # "nil")
    /\ UNCHANGED <<ctrlVars, runVars, fs, fsEvents, agentC, agentPc, mut,
                   readerPc, got, published>>

\* The watch goroutine: c, err := Load(configLocation); an error is logged
\* and the loop goes on, a configuration goes to ca.Set.
WatcherLoad ==
    /\ watcherPc = "loading"
    /\ IF Load(fs).err # "nil"
       THEN /\ watcherPc' = "idle"
            /\ loadFailed' = TRUE
            /\ UNCHANGED loaded
       ELSE /\ watcherPc' = "loaded"
            /\ loaded' = [loaded EXCEPT !.watch = Load(fs).c]
            /\ UNCHANGED loadFailed
    /\ UNCHANGED <<ctrlVars, runVars, fs, fsEvents, agentC, agentPc, mut,
                   readerPc, got, published>>

\* The watch goroutine: ca.Set(c), ca.mut.Lock()
WatcherSetLock ==
    /\ watcherPc = "loaded"
    /\ CanLock(mut)
    /\ mut' = [mut EXCEPT !.writer = "watch"]
    /\ watcherPc' = "locked"
    /\ UNCHANGED <<ctrlVars, runVars, fs, fsEvents, agentC, agentPc, loaded,
                   readerPc, got, published, loadFailed>>

\* The watch goroutine: ca.Set(c), Lock returns, ca.c = c and the deferred
\* ca.mut.Unlock()
WatcherSetStore ==
    /\ watcherPc = "locked"
    /\ LockGranted(mut)
    /\ agentC' = loaded.watch
    /\ published' = published \cup {loaded.watch}
    /\ mut' = [mut EXCEPT !.writer = "none"]
    /\ watcherPc' = "idle"
    /\ UNCHANGED <<ctrlVars, runVars, fs, fsEvents, agentPc, loaded,
                   readerPc, got, loadFailed>>

WatcherStep == WatcherTake \/ WatcherLoad \/ WatcherSetLock \/ WatcherSetStore

\* Config(): ca.mut.RLock(), by a caller that holds the agent after Start
\* returned.
ConfigRLock ==
    /\ agentPc \in {"watching", "stopped"}
    /\ readerPc = "idle"
    /\ CanRLock(mut)
    /\ mut' = [mut EXCEPT !.readers = @ + 1]
    /\ readerPc' = "rlocked"
    /\ UNCHANGED <<ctrlVars, runVars, fs, fsEvents, agentC, agentPc, watcherPc,
                   loaded, got, published, loadFailed>>

\* Config(): return ca.c and the deferred ca.mut.RUnlock()
ConfigReturn ==
    /\ readerPc = "rlocked"
    /\ got' = agentC
    /\ mut' = [mut EXCEPT !.readers = @ - 1]
    /\ readerPc' = "idle"
    /\ UNCHANGED <<ctrlVars, runVars, fs, fsEvents, agentC, agentPc, watcherPc,
                   loaded, published, loadFailed>>

ReaderStep == ConfigRLock \/ ConfigReturn

\* The agent from before Start to after Stop.
NextAgent ==
    \/ SymlinkRemove
    \/ SymlinkCreate
    \/ StartLoad
    \/ StartSetLock
    \/ StartSetStore
    \/ StartWatch
    \/ AgentStop
    \/ WatcherStep
    \/ ReaderStep

SpecAgent == InitAgent /\ [][NextAgent]_vars

\* The agent after Start has returned, while nobody stops it; the watch
\* goroutine and the caller of Config() keep being scheduled.
NextSwap ==
    \/ SymlinkRemove
    \/ SymlinkCreate
    \/ WatcherStep
    \/ ReaderStep

SpecSwap ==
    /\ Init
    /\ [][NextSwap]_vars
    /\ WF_vars(WatcherStep)
    /\ WF_vars(ReaderStep)

\* The symlink points to version v of the file.
Installed(v) == fs.linked /\ fs.target = v

\* A value of Config(): a version of the file that was written whole.
WholeConfig(c) == c \in 1..fs.target /\ ConfigFile(c) # <<>>

\* C11: after Start has returned, a configuration swap that removes the
\* symlink and creates it again makes Config() eventually return the new
\* rule set (unless the next swap has begun by then); at every moment the
\* published configuration and every value Config() returned is a complete
\* version of the file, old or new, never nil.
C11_SwapConverges ==
    /\ [](WholeConfig(agentC) /\ (got # NotCalled => WholeConfig(got)))
    /\ \A v \in 2..(1 + MaxSwaps) :
          Installed(v) ~> ((agentC = v /\ got = v) \/ ~Installed(v))

\* The reload of the swap's first half failed, and Config() has returned
\* the rule set of the swap's second half, one rule longer than the first.
C11_Witness ==
    /\ loadFailed
    /\ got = 2
    /\ Len(ConfigFile(got)) = Len(config) + 1

\* C12: a reload that fails leaves the published configuration as it was
\* (Config() returns the same before and after), the watch goroutine goes
\* back to waiting for events, and an event that is waiting leads to one
\* more reload attempt.
C12_FailedReloadKeepsSnapshot ==
    /\ [][(watcherPc = "loading" /\ watcherPc' # "loading" /\ Load(fs).err # "nil") =>
            (agentC' = agentC /\ published' = published /\ watcherPc' = "idle")]_vars
    /\ [](agentC \in published)
    /\ (fsEvents > 0) ~> (watcherPc = "loading")

\* After a failed reload the first configuration is still the one Config()
\* returns, and the next reload attempt is under way.
C12_Witness ==
    /\ loadFailed
    /\ agentC = 1
    /\ got = 1
    /\ watcherPc = "loading"

\* C13: Config() never waits for a reload: ca.mut is write-held (or waited
\* for) only between Lock and Unlock inside Set, never while Start or the
\* watch goroutine loads the file, it is read-held only inside Config(), and
\* every value Config() returned was stored by Set.
C13_ConfigNeverWaitsForReload ==
    /\ mut.writer = "watch" => watcherPc = "locked"
    /\ mut.writer = "start" => agentPc = "locked"
    /\ mut.readers = (IF readerPc = "rlocked" THEN 1 ELSE 0)
    /\ (watcherPc \in {"loading", "loaded"} /\ readerPc = "idle") => CanRLock(mut)
    /\ got # NotCalled => got \in published

\* Config() holds the read lock while the watch goroutine loads the file,
\* and an earlier call has returned.
C13_Witness ==
    /\ watcherPc = "loading"
    /\ readerPc = "rlocked"
    /\ got # NotCalled

\* ------------------------------------------------------ reconfiguration
\* The controller at work while a configuration swap completes: the symlink
\* points to version 2, the reload of the swap's first half has failed and
\* the event of its second half waits for the watch goroutine.
InitReconf ==
    /\ InitState
    /\ RunStarted
    /\ probing = FALSE
    /\ probe = [k \in Keys |-> NoProbe]
    /\ fs = [target |-> 2, linked |-> TRUE]
    /\ fsEvents = 1
    /\ agentC = 1
    /\ agentPc = "watching"
    /\ watcherPc = "idle"
    /\ loaded = [start |-> 1, watch |-> NoConfig]
    /\ mut = [writer |-> "none", readers |-> 0]
    /\ readerPc = "idle"
    /\ got = NotCalled
    /\ published = {1}
    /\ loadFailed = TRUE

NextReconf ==
    \/ WatcherStep
    \/ \E l \in Locs : InformerDeliver(l)
    \/ \E k \in Keys : DelayedAdd(k)
    \/ \E w \in Workers : WorkerStep(w)

SpecReconf == InitReconf /\ [][NextReconf]_vars

\* The indexes, from i on, of the rules of a rule list whose From is the
\* given namespace and name.
RECURSIVE MatchingIn(_, _, _, _)
MatchingIn(rules, i, namespace, name) ==
    IF i > Len(rules) THEN <<>>
    ELSE IF rules[i].From.Namespace = namespace /\ rules[i].From.Name = name
         THEN <<i>> \o MatchingIn(rules, i + 1, namespace, name)
         ELSE MatchingIn(rules, i + 1, namespace, name)

\* C14: a reconcile that selects its rules after a new configuration was
\* published selects them from that configuration: the rules it goes on to
\* mirror are the rules of the published configuration whose From is the
\* key's namespace and name.
C14_NewSnapshotTakesEffect ==
    [][\A w \in Workers :
         (pc[w] = "reconcile" /\ pc'[w] # "reconcile"
            /\ source'[w].exists /\ ~source'[w].deleting) =>
            LET k == SplitMetaNamespaceKey(item[w])
            IN  todo'[w] = MatchingIn(ConfigFile(agentC), 1, k.Namespace, k.Name)]_vars

\* ----------------------------------------------------------- convergence
\* One iteration of reconcile's loop in which the lister answers the
\* destination lookup and the API server does not reject the write for a
\* reason of its own.
MirrorSecretNoFault(w) ==
    /\ MirrorSecret(w)
    /\ LastMirror(w).getErr # "lister error"
    /\ \A j \in DOMAIN LastMirror(w).calls :
          LastMirror(w).calls[j].resp # "injected error"

WorkerStepNoFault(w) ==
    \/ WorkerGet(w)
    \/ Reconcile(w)
    \/ MirrorSecretNoFault(w)
    \/ HandleErr(w)
    \/ WorkerDone(w)

\* The informer's resync, period after period: update(old, obj) for a
\* cached secret.  (Followed below for the source of the rules; the resync
\* of another secret leads to a reconcile that selects no rule.)
PeriodicResync(loc) ==
    /\ cache[loc].exists
    /\ queue' = enqueue(queue, loc)
    /\ UNCHANGED <<api, cache, events, workerVars, probing, probe, runVars, agentVars>>

NextConverge ==
    \/ \E d \in Datas : UserApply(SrcLoc, d)
    \/ \E l \in Locs : InformerDeliver(l)
    \/ PeriodicResync(SrcLoc)
    \/ \E k \in Keys : DelayedAdd(k)
    \/ \E w \in Workers : WorkerStepNoFault(w)

\* The controller with a user who writes the source, an informer that
\* delivers what it observes, timers that fire, workers that keep running
\* and an API server whose writes succeed.
SpecConverge ==
    /\ Init
    /\ [][NextConverge]_vars
    /\ \A l \in Locs : WF_vars(InformerDeliver(l))
    /\ WF_vars(PeriodicResync(SrcLoc))
    /\ \A k \in Keys : WF_vars(DelayedAdd(k))
    /\ \A w \in Workers : WF_vars(WorkerStepNoFault(w))

\* The source of a rule holds data d, is not being deleted and the informer
\* has delivered it.
SourceDelivered(from, d) ==
    /\ api[from].exists
    /\ ~api[from].deleting
    /\ api[from].Data = d
    /\ cache[from] = api[from]

\* The destination of every rule From -> To with the given From exists and
\* holds data d.
DestinationsHold(from, d) ==
    \A i \in DOMAIN config :
        config[i].From = from =>
            (api[config[i].To].exists /\ api[config[i].To].Data = d)

\* C15: for every rule From -> To, when the source exists with data that is
\* not empty, is not being deleted and its notification was delivered, then
\* eventually the destination exists with the source's data (or the source
\* has changed again by then).
C15_EventualConvergence ==
    \A from \in {config[i].From : i \in DOMAIN config} : \A d \in Datas \ {{}} :
        SourceDelivered(from, d) ~>
            (DestinationsHold(from, d) \/ ~SourceDelivered(from, d))

\* Both destinations hold the source's data: the first was updated, the
\* second created, and the informer has delivered both writes.
C15_Witness ==
    \E d \in Datas \ {{}} :
        /\ SourceDelivered(SrcLoc, d)
        /\ DestinationsHold(SrcLoc, d)
        /\ cache = api

\* The agent watches the directory and has nothing left to do: no event
\* waits and the watch goroutine is back in its select.
AgentQuiet ==
    /\ agentPc = "watching"
    /\ fsEvents = 0
    /\ watcherPc = "idle"

\* C21: no configuration change is missed at startup: once Start has
\* returned and the agent has nothing left to do, the published
\* configuration is the version the symlink points to, also when the file
\* was replaced between Start's load and the registration of the watch.
C21_NoChangeMissedAtStartup ==
    (AgentQuiet /\ fs.linked) => agentC = fs.target

\* C22: the handler never sends a create for a destination that exists on
\* the API server, also when the key is reconciled again after a create
\* succeeded and before the cache has observed the created secret.
C22_NoCreateOfExisting ==
    [][\A w \in Workers :
         MirrorStep(w) =>
            \A j \in DOMAIN LastMirror(w).calls :
                LastMirror(w).calls[j].op = "create" =>
                    ~api[LastMirror(w).calls[j].to].exists]_vars

====
